---- MODULE Spec2Model ----
(***************************************************************************)
(* Lock-and-mint bridge with a single off-chain relayer.                   *)
(*                                                                         *)
(* On-chain part: ERC20Mock (source token, wrapped token),                 *)
(* BridgeSourceChain and BridgeDestinationChain                            *)
(* (contracts/mocks/ERC20Mock.sol).  Off-chain part: scripts/relayer.ts    *)
(* (deploys the contracts on every start, hands the wrapped token to the   *)
(* destination bridge, then reacts to TokenLocked / TokenBurned with       *)
(* mintWrapped / release) and scripts/user-simulation.ts (mint, approve,   *)
(* lock, burn).                                                            *)
(***************************************************************************)
EXTENDS Integers, Sequences, FiniteSets, TLC

(* ------------------------------ bounds -------------------------------- *)
\* largest amount passed to a call
MaxAmount == 1
\* largest total supply of the source token the owner mints
MaxFunds == 2
\* events kept per bridge log
MaxEvents == 2
\* deliveries of one log entry to a listener beyond the first
MaxRedeliver == 1
\* relayer starts (each start deploys a fresh set of contracts)
MaxDeploy == 2

(* ----------------------------- addresses ------------------------------ *)
\* relayer.ts:10  const [owner, relayer, user] = await ethers.getSigners()
Owner == "owner"
Relayer == "relayer"
User == "user"
Signers == {Owner, Relayer, User}
SrcBridge == "sourceBridge"
DstBridge == "destBridge"

Amounts == 0..MaxAmount
Deploys == 1..MaxDeploy
Dirs == {"mint", "release"}

VARIABLES
  chain,    \* chain[d]: storage of the contracts of deployment d
  dep,      \* deployments made so far; deployed-addresses.json names dep
  rpc,      \* position of relayer.ts main(): down, deployed, owned, listening
  sub,      \* sub[dir]: log entries the listener of dir has been handed
  redeliv,  \* log entries handed to a listener a further time
  procs,    \* the listener callbacks started so far, and their transactions
  reverted  \* the latest call of a signer to a permissioned entry that reverted

vars == <<chain, dep, rpc, sub, redeliv, procs, reverted>>

(* --------------------------- contract storage ------------------------- *)
\* the transaction in the newest block (the node mines one block for each
\* transaction): one that emitted entry ev of a bridge log, the call of a
\* listener callback, or any other
OtherTx == [kind |-> "other", dir |-> "none", ev |-> 0, n |-> 0]
EventTx(dir, ev) == [kind |-> "event", dir |-> dir, ev |-> ev, n |-> 0]
CallTx(h) == [kind |-> "call", dir |-> h.dir, ev |-> h.ev, n |-> h.n]

\* storage right after the four deployments of relayer.ts:14-44
Deployed ==
  [ srcBal     |-> [a \in Signers \cup {SrcBridge} |-> 0],
    srcAllow   |-> [a \in Signers |-> 0],
    wBal       |-> [a \in Signers |-> 0],
    wOwner     |-> Owner,
    srcRelayer |-> Relayer,
    dstRelayer |-> Relayer,
    srcLog     |-> << >>,
    dstLog     |-> << >>,
    tip        |-> OtherTx ]

RECURSIVE SumBal(_, _)
SumBal(f, S) ==
  IF S = {} THEN 0
  ELSE LET a == CHOOSE x \in S : TRUE IN f[a] + SumBal(f, S \ {a})

\* ERC20 totalSupply of the two tokens
SrcSupply(c) == SumBal(c.srcBal, DOMAIN c.srcBal)
WSupply(c) == SumBal(c.wBal, DOMAIN c.wBal)

(* ERC20Mock.mint on the source token: onlyOwner, the owner is the deployer *)
SrcMintOk(c, sender, to, amount) == sender = Owner
SrcMint(c, sender, to, amount) ==
  IF SrcMintOk(c, sender, to, amount)
  THEN [c EXCEPT !.srcBal[to] = @ + amount, !.tip = OtherTx]
  ELSE c

(* ERC20.approve(sourceBridge, amount) on the source token *)
Approve(c, sender, amount) ==
  [c EXCEPT !.srcAllow[sender] = amount, !.tip = OtherTx]

\* mint on the wrapped token with the deployer, instead of the current
\* owner, as the one allowed
WMintOkDeployer(c, sender, to, amount) == sender = Owner

(* ERC20Mock.mint on the wrapped token: onlyOwner of the wrapped token *)
WMintOk(c, sender, to, amount) == sender = c.wOwner
WMint(c, sender, to, amount) ==
  IF WMintOk(c, sender, to, amount)
  THEN [c EXCEPT !.wBal[to] = @ + amount, !.tip = OtherTx]
  ELSE c

(* ERC20Mock.burnFrom on the wrapped token: onlyOwner, _burn(from, amount) *)
(* (reverts on a missing balance)                                          *)
WBurnFromOk(c, sender, from, amount) ==
  /\ sender = c.wOwner
  /\ c.wBal[from] >= amount
WBurnFrom(c, sender, from, amount) ==
  IF WBurnFromOk(c, sender, from, amount)
  THEN [c EXCEPT !.wBal[from] = @ - amount, !.tip = OtherTx]
  ELSE c

(* Ownable.transferOwnership(destBridge) on the wrapped token *)
TransferOwnershipOk(c, sender) == sender = c.wOwner
TransferOwnership(c, sender) ==
  IF TransferOwnershipOk(c, sender)
  THEN [c EXCEPT !.wOwner = DstBridge, !.tip = OtherTx]
  ELSE c

\* setRelayer without its onlyOwner modifier
SrcSetRelayerOkAnyCaller(c, sender, newRelayer) == TRUE

(* BridgeSourceChain.setRelayer: onlyOwner, the owner is the deployer *)
SrcSetRelayerOk(c, sender, newRelayer) == sender = Owner
SrcSetRelayer(c, sender, newRelayer) ==
  IF SrcSetRelayerOk(c, sender, newRelayer)
  THEN [c EXCEPT !.srcRelayer = newRelayer, !.tip = OtherTx]
  ELSE c

\* setRelayer of the destination bridge writing the relayer of both bridges
DstSetRelayerBoth(c, sender, newRelayer) ==
  IF sender = Owner
  THEN [c EXCEPT !.dstRelayer = newRelayer, !.srcRelayer = newRelayer,
                 !.tip = OtherTx]
  ELSE c

(* BridgeDestinationChain.setRelayer: onlyOwner, the owner is the deployer *)
DstSetRelayerOk(c, sender, newRelayer) == sender = Owner
DstSetRelayer(c, sender, newRelayer) ==
  IF DstSetRelayerOk(c, sender, newRelayer)
  THEN [c EXCEPT !.dstRelayer = newRelayer, !.tip = OtherTx]
  ELSE c

\* lock without its require(amount > 0)
LockOkAnyAmount(c, sender, amount, destination) ==
  /\ c.srcAllow[sender] >= amount
  /\ c.srcBal[sender] >= amount

(* BridgeSourceChain.lock: amount > 0, transferFrom(sender, bridge, amount) *)
(* (reverts on a missing allowance or balance), emit TokenLocked            *)
LockOk(c, sender, amount, destination) ==
  /\ amount > 0
  /\ c.srcAllow[sender] >= amount
  /\ c.srcBal[sender] >= amount
Lock(c, sender, amount, destination) ==
  IF LockOk(c, sender, amount, destination)
  THEN [c EXCEPT !.srcAllow[sender] = @ - amount,
                 !.srcBal[sender] = @ - amount,
                 !.srcBal[SrcBridge] = @ + amount,
                 !.srcLog = Append(@, [user |-> sender, amount |-> amount,
                                       destination |-> destination]),
                 !.tip = EventTx("mint", Len(c.srcLog) + 1)]
  ELSE c

\* release that pays the user without debiting the bridge's own balance
ReleaseKeepsVault(c, sender, user, amount) ==
  IF /\ sender = c.srcRelayer
     /\ amount > 0
     /\ c.srcBal[SrcBridge] >= amount
  THEN [c EXCEPT !.srcBal[user] = @ + amount, !.tip = OtherTx]
  ELSE c

(* BridgeSourceChain.release: onlyRelayer, amount > 0, transfer(user, amount) *)
ReleaseOk(c, sender, user, amount) ==
  /\ sender = c.srcRelayer
  /\ amount > 0
  /\ c.srcBal[SrcBridge] >= amount
Release(c, sender, user, amount) ==
  IF ReleaseOk(c, sender, user, amount)
  THEN [c EXCEPT !.srcBal[SrcBridge] = @ - amount,
                 !.srcBal[user] = @ + amount,
                 !.tip = OtherTx]
  ELSE c

\* mintWrapped without its onlyRelayer modifier
MintWrappedOkAnyCaller(c, sender, user, amount) ==
  /\ amount > 0
  /\ c.wOwner = DstBridge

(* BridgeDestinationChain.mintWrapped: onlyRelayer, amount > 0, then         *)
(* wrappedToken.mint(user, amount), itself onlyOwner of the wrapped token    *)
MintWrappedOk(c, sender, user, amount) ==
  /\ sender = c.dstRelayer
  /\ amount > 0
  /\ c.wOwner = DstBridge
MintWrapped(c, sender, user, amount) ==
  IF MintWrappedOk(c, sender, user, amount)
  THEN [c EXCEPT !.wBal[user] = @ + amount, !.tip = OtherTx]
  ELSE c

\* burn that emits TokenBurned without the burnFrom call
BurnKeepsTokens(c, sender, amount, destination) ==
  IF /\ amount > 0
     /\ c.wOwner = DstBridge
     /\ c.wBal[sender] >= amount
  THEN [c EXCEPT !.dstLog = Append(@, [user |-> sender, amount |-> amount,
                                       destination |-> destination]),
                 !.tip = EventTx("release", Len(c.dstLog) + 1)]
  ELSE c

\* burn on a token whose burnFrom does not check the holder's balance
BurnOkUnbacked(c, sender, amount, destination) ==
  /\ amount > 0
  /\ c.wOwner = DstBridge

(* BridgeDestinationChain.burn: amount > 0, wrappedToken.burnFrom(sender,    *)
(* amount) (onlyOwner of the wrapped token, no allowance), emit TokenBurned  *)
BurnOk(c, sender, amount, destination) ==
  /\ amount > 0
  /\ c.wOwner = DstBridge
  /\ c.wBal[sender] >= amount
Burn(c, sender, amount, destination) ==
  IF BurnOk(c, sender, amount, destination)
  THEN [c EXCEPT !.wBal[sender] = @ - amount,
                 !.dstLog = Append(@, [user |-> sender, amount |-> amount,
                                       destination |-> destination]),
                 !.tip = EventTx("release", Len(c.dstLog) + 1)]
  ELSE c

\* what a call that reverts leaves behind: its failed receipt
NoCall == [fn |-> "none", sender |-> "none"]
Receipt(ok, fn, sender) ==
  IF ok THEN reverted ELSE [fn |-> fn, sender |-> sender]

(* ------------------------------- Init --------------------------------- *)
Init ==
  /\ chain = [d \in Deploys |-> Deployed]
  /\ dep = 1
  /\ rpc = "deployed"
  /\ sub = [dir \in Dirs |-> 0]
  /\ redeliv = 0
  /\ procs = {}
  /\ reverted = NoCall

(* --------------------- user-simulation.ts and other callers ----------- *)
\* the contracts a caller reaches are those deployed-addresses.json names
Cur == chain[dep]
Put(c) == chain' = [chain EXCEPT ![dep] = c]

\* user-simulation.ts:49  sourceTokenOwner.mint(user.address, amount)
MintSource(amount) ==
  /\ SrcSupply(Cur) + amount <= MaxFunds
  /\ Put(SrcMint(Cur, Owner, User, amount))
  /\ UNCHANGED <<dep, rpc, sub, redeliv, procs, reverted>>

\* user-simulation.ts:55  sourceToken.approve(addresses.sourceBridge, amount)
ApproveBridge(amount) ==
  /\ Put(Approve(Cur, User, amount))
  /\ UNCHANGED <<dep, rpc, sub, redeliv, procs, reverted>>

\* user-simulation.ts:61  sourceBridge.lock(amount, destination)
CallLock(sender, amount, destination) ==
  /\ Len(Cur.srcLog) < MaxEvents
  /\ Put(Lock(Cur, sender, amount, destination))
  /\ UNCHANGED <<dep, rpc, sub, redeliv, procs, reverted>>

\* user-simulation.ts:95  destBridge.burn(amount, destination)
CallBurn(sender, amount, destination) ==
  /\ Len(Cur.dstLog) < MaxEvents
  /\ Put(Burn(Cur, sender, amount, destination))
  /\ UNCHANGED <<dep, rpc, sub, redeliv, procs, reverted>>

\* a signer calls release / mintWrapped / setRelayer itself
CallRelease(sender, user, amount) ==
  /\ Put(Release(Cur, sender, user, amount))
  /\ UNCHANGED <<dep, rpc, sub, redeliv, procs>>
  /\ reverted' = Receipt(ReleaseOk(Cur, sender, user, amount),
                         "release", sender)

CallMintWrapped(sender, user, amount) ==
  /\ WSupply(Cur) + amount <= MaxFunds
  /\ Put(MintWrapped(Cur, sender, user, amount))
  /\ UNCHANGED <<dep, rpc, sub, redeliv, procs>>
  /\ reverted' = Receipt(MintWrappedOk(Cur, sender, user, amount),
                         "mintWrapped", sender)

CallSrcSetRelayer(sender, newRelayer) ==
  /\ Put(SrcSetRelayer(Cur, sender, newRelayer))
  /\ UNCHANGED <<dep, rpc, sub, redeliv, procs>>
  /\ reverted' = Receipt(SrcSetRelayerOk(Cur, sender, newRelayer),
                         "source.setRelayer", sender)

CallDstSetRelayer(sender, newRelayer) ==
  /\ Put(DstSetRelayer(Cur, sender, newRelayer))
  /\ UNCHANGED <<dep, rpc, sub, redeliv, procs>>
  /\ reverted' = Receipt(DstSetRelayerOk(Cur, sender, newRelayer),
                         "destination.setRelayer", sender)

\* a signer calls mint / burnFrom on the wrapped token itself
CallWMint(sender, to, amount) ==
  /\ WSupply(Cur) + amount <= MaxFunds
  /\ Put(WMint(Cur, sender, to, amount))
  /\ UNCHANGED <<dep, rpc, sub, redeliv, procs>>
  /\ reverted' = Receipt(WMintOk(Cur, sender, to, amount),
                         "wrappedToken.mint", sender)

CallWBurnFrom(sender, from, amount) ==
  /\ Put(WBurnFrom(Cur, sender, from, amount))
  /\ UNCHANGED <<dep, rpc, sub, redeliv, procs>>
  /\ reverted' = Receipt(WBurnFromOk(Cur, sender, from, amount),
                         "wrappedToken.burnFrom", sender)

(* ------------------------------ relayer.ts ---------------------------- *)
\* relayer.ts:58  await wrappedToken.transferOwnership(destBridge)
GrantOwnership ==
  /\ rpc = "deployed"
  /\ Put(TransferOwnership(Cur, Owner))
  /\ rpc' = "owned"
  /\ UNCHANGED <<dep, sub, redeliv, procs, reverted>>

\* relayer.ts:64,86  sourceBridge.on(TokenLocked), destBridge.on(TokenBurned):
\* a subscription starts at the head of the log, earlier entries are not replayed
SubscribeFrom(c) == [mint |-> Len(c.srcLog), release |-> Len(c.dstLog)]
Listen ==
  /\ rpc = "owned"
  /\ rpc' = "listening"
  /\ sub' = SubscribeFrom(Cur)
  /\ UNCHANGED <<chain, dep, redeliv, procs, reverted>>

LogOf(c, dir) == IF dir = "mint" THEN c.srcLog ELSE c.dstLog

\* the call made with (user, amount) instead
CallArgsToSender(e) == [to |-> e.user, amount |-> e.amount]

\* the call made with twice the amount of the event
CallArgsDoubled(e) == [to |-> e.destination, amount |-> 2 * e.amount]

\* relayer.ts:66,77 / 88,99  [user, amount, destination] = event.args;
\* the call is made with (destination, amount)
CallArgs(e) == [to |-> e.destination, amount |-> e.amount]

\* the callback of relayer.ts:64-84 / 86-106 for entry ev of the log of dir
Handler(d, dir, ev, n) ==
  LET a == CallArgs(LogOf(chain[d], dir)[ev])
  IN [dep |-> d, dir |-> dir, ev |-> ev, n |-> n,
      to |-> a.to, amount |-> a.amount, pc |-> "observed", alive |-> TRUE]

Of(d, dir, ev) == {h \in procs : h.dep = d /\ h.dir = dir /\ h.ev = ev}

\* the listener is handed the next entry of its log
Deliver(dir) ==
  /\ rpc = "listening"
  /\ sub[dir] < Len(LogOf(Cur, dir))
  /\ sub' = [sub EXCEPT ![dir] = @ + 1]
  /\ procs' = procs \cup {Handler(dep, dir, sub[dir] + 1,
                                  Cardinality(Of(dep, dir, sub[dir] + 1)) + 1)}
  /\ UNCHANGED <<chain, dep, rpc, redeliv, reverted>>

\* the listener is handed once more an entry it was already handed
\* (overlapping poll ranges, a provider reconnect): the callback keeps no record
Redeliver(dir, ev) ==
  /\ rpc = "listening"
  /\ redeliv < MaxRedeliver
  /\ Of(dep, dir, ev) # {}
  /\ redeliv' = redeliv + 1
  /\ procs' = procs \cup {Handler(dep, dir, ev, Cardinality(Of(dep, dir, ev)) + 1)}
  /\ UNCHANGED <<chain, dep, rpc, sub, reverted>>

\* the call made without connect(relayer): the contract object signs with
\* the account that deployed it
DestCallAsDeployer(c, h) ==
  IF h.dir = "mint" THEN MintWrapped(c, Owner, h.to, h.amount)
  ELSE Release(c, Owner, h.to, h.amount)

\* the call the callback makes, signed by the relayer account
DestOk(c, h) ==
  IF h.dir = "mint" THEN MintWrappedOk(c, Relayer, h.to, h.amount)
  ELSE ReleaseOk(c, Relayer, h.to, h.amount)
DestCall(c, h) ==
  IF h.dir = "mint" THEN MintWrapped(c, Relayer, h.to, h.amount)
  ELSE Release(c, Relayer, h.to, h.amount)

Step(h, pc) == procs' = (procs \ {h}) \cup {[h EXCEPT !.pc = pc]}

\* the call made outside a try block: the rejection is not caught, the
\* process ends and with it the listeners
SubmitUncaught(h) ==
  /\ h.alive /\ h.pc = "observed"
  /\ procs' = (procs \ {h}) \cup
               {[h EXCEPT !.pc = IF DestOk(chain[h.dep], h)
                                 THEN "pending" ELSE "error"]}
  /\ rpc' = IF DestOk(chain[h.dep], h) THEN rpc ELSE "down"
  /\ UNCHANGED <<chain, dep, sub, redeliv, reverted>>

\* relayer.ts:75-77 / 97-99  await bridge.connect(relayer).f(destination, amount):
\* the call is estimated against the current state; a call that would revert
\* throws here and nothing is sent, otherwise the transaction is sent
Submit(h) ==
  /\ h.alive /\ h.pc = "observed"
  /\ Step(h, IF DestOk(chain[h.dep], h) THEN "pending" ELSE "error")
  /\ UNCHANGED <<chain, dep, rpc, sub, redeliv, reverted>>

\* the chain includes a pending transaction in a new block: it takes effect
\* or reverts
Mined(c, h) == [DestCall(c, h) EXCEPT !.tip = CallTx(h)]
Mine(h) ==
  /\ h.pc = "pending"
  /\ chain' = [chain EXCEPT ![h.dep] = Mined(@, h)]
  /\ Step(h, IF DestOk(chain[h.dep], h) THEN "mined" ELSE "reverted")
  /\ UNCHANGED <<dep, rpc, sub, redeliv, reverted>>

\* relayer.ts:78-82 / 100-104  await tx.wait(): "successful!" is logged on a
\* reverted, a reverted transaction throws into the catch block, which logs
WaitResult(h) == IF h.pc = "mined" THEN "successful" ELSE "error"
Wait(h) ==
  /\ h.alive /\ h.pc \in {"mined", "reverted"}
  /\ Step(h, WaitResult(h))
  /\ UNCHANGED <<chain, dep, rpc, sub, redeliv, reverted>>

\* the relayer process is killed: its callbacks end where they are, the
\* transactions they sent stay with the chain
Crash ==
  /\ rpc # "down"
  /\ dep < MaxDeploy
  /\ rpc' = "down"
  /\ procs' = {[h EXCEPT !.alive = FALSE] : h \in procs}
  /\ UNCHANGED <<chain, dep, sub, redeliv, reverted>>

\* a start that attaches to the contracts already deployed and reads their
\* logs from the first entry
RestartResume ==
  /\ rpc = "down"
  /\ rpc' = "listening"
  /\ sub' = [dir \in Dirs |-> 0]
  /\ UNCHANGED <<chain, dep, redeliv, procs, reverted>>

\* relayer.ts:6-55  a start deploys the four contracts anew and overwrites
\* deployed-addresses.json; nothing is read back from an earlier run
Restart ==
  /\ rpc = "down"
  /\ dep < MaxDeploy
  /\ dep' = dep + 1
  /\ rpc' = "deployed"
  /\ sub' = [dir \in Dirs |-> 0]
  /\ UNCHANGED <<chain, redeliv, procs, reverted>>

(* --------------------------- specifications --------------------------- *)
\* user-simulation.ts: mint, approve, lock, burn
Users ==
  \/ \E a \in 1..MaxAmount : MintSource(a)
  \/ \E a \in 1..MaxAmount : ApproveBridge(a)
  \/ \E a \in Amounts, to \in {User, Owner} : CallLock(User, a, to)
  \/ \E a \in Amounts : CallBurn(User, a, User)

\* user-simulation.ts as written: destination = user.address, amount > 0
Demo ==
  \/ \E a \in 1..MaxAmount : MintSource(a)
  \/ \E a \in 1..MaxAmount : ApproveBridge(a)
  \/ \E a \in 1..MaxAmount : CallLock(User, a, User)
  \/ \E a \in 1..MaxAmount : CallBurn(User, a, User)

\* the user funds the source bridge: mint, approve, lock
Funding ==
  \/ \E a \in 1..MaxAmount : MintSource(a)
  \/ \E a \in 1..MaxAmount : ApproveBridge(a)
  \/ \E a \in 1..MaxAmount : CallLock(User, a, User)

\* the owner reconfigures a bridge
Reconfigure ==
  \/ \E r \in {Relayer, User} : CallSrcSetRelayer(Owner, r)
  \/ \E r \in {Relayer, User} : CallDstSetRelayer(Owner, r)

\* any signer calls the permissioned entry points
Callers ==
  \/ \E s \in Signers, a \in Amounts : CallRelease(s, User, a)
  \/ \E s \in Signers, a \in Amounts : CallMintWrapped(s, User, a)
  \/ \E s \in Signers, r \in {Relayer, User} : CallSrcSetRelayer(s, r)
  \/ \E s \in Signers, r \in {Relayer, User} : CallDstSetRelayer(s, r)

RelayerSteps ==
  \/ GrantOwnership
  \/ Listen
  \/ \E dir \in Dirs : Deliver(dir)
  \/ \E h \in procs : Submit(h)
  \/ \E h \in procs : Mine(h)
  \/ \E h \in procs : Wait(h)

Duplicates == \E dir \in Dirs, ev \in 1..MaxEvents : Redeliver(dir, ev)

\* the relayer and the user script, with re-deliveries and reconfiguration
Next == Users \/ Reconfigure \/ RelayerSteps \/ Duplicates

Spec == Init /\ [][Next]_vars

\* the contracts called by any signer, the relayer script up to its listeners
NextCallers == Funding \/ Callers \/ GrantOwnership

SpecCallers == Init /\ [][NextCallers]_vars

\* the relayer and the user script as they are run, each event handed once
NextRelay == Users \/ RelayerSteps

SpecRelay == Init /\ [][NextRelay]_vars

\* the relayer killed and started again; the event loop runs what is ready
NextCrash == Demo \/ RelayerSteps \/ Crash \/ Restart

Fairness ==
  /\ WF_vars(Restart) /\ WF_vars(GrantOwnership) /\ WF_vars(Listen)
  /\ \A dir \in Dirs : WF_vars(Deliver(dir))
  /\ WF_vars(\E h \in procs : Submit(h) \/ Mine(h) \/ Wait(h))

SpecCrash == Init /\ [][NextCrash]_vars /\ Fairness

\* the relayer kept running while the owner reconfigures the bridges; the
\* event loop runs what is ready
NextOps == Users \/ Reconfigure \/ RelayerSteps

EventLoop ==
  /\ WF_vars(GrantOwnership) /\ WF_vars(Listen)
  /\ \A dir \in Dirs : WF_vars(Deliver(dir))
  /\ WF_vars(\E h \in procs : Submit(h) \/ Mine(h) \/ Wait(h))

SpecOps == Init /\ [][NextOps]_vars /\ EventLoop

\* any signer calls the wrapped token directly
TokenCalls ==
  \/ \E s \in Signers, a \in 1..MaxAmount : CallWMint(s, User, a)
  \/ \E s \in Signers, a \in 1..MaxAmount : CallWBurnFrom(s, User, a)

\* every way to the wrapped token: the token and mintWrapped called by any
\* signer, burn by the user, the owner reconfiguring the destination bridge,
\* the relayer script up to its listeners
NextToken ==
  \/ TokenCalls
  \/ \E s \in Signers, a \in Amounts : CallMintWrapped(s, User, a)
  \/ \E a \in Amounts : CallBurn(User, a, User)
  \/ \E r \in {Relayer, User} : CallDstSetRelayer(Owner, r)
  \/ GrantOwnership
  \/ Listen

SpecToken == Init /\ [][NextToken]_vars

(* ------------------------------ vocabulary ---------------------------- *)
\* the destination call of callback h took effect on the chain
Effected(h) == h.pc \in {"mined", "successful"}

\* the callback has sent its transaction (or had it refused) at least once
Attempts(h) == IF h.pc = "observed" THEN 0 ELSE 1

\* where the callback stands, in the words of the transfer lifecycle:
\* relayer.ts:66-71 Observed, 75-78 Dispatching, 79 Confirmed, 81 Failed;
\* the callback has no further state
Status(h) ==
  CASE h.pc = "observed" -> "Observed"
    [] h.pc \in {"pending", "mined", "reverted"} -> "Dispatching"
    [] h.pc = "successful" -> "Confirmed"
    [] h.pc = "error" -> "Failed"

RECURSIVE SumAmount(_)
SumAmount(S) ==
  IF S = {} THEN 0
  ELSE LET h == CHOOSE x \in S : TRUE IN h.amount + SumAmount(S \ {h})

RECURSIVE SumLog(_)
SumLog(log) == IF log = << >> THEN 0 ELSE Head(log).amount + SumLog(Tail(log))

\* cumulative amount minted by the relayer's mintWrapped calls, and locked
MintedByRelayer(d) ==
  SumAmount({h \in procs : h.dep = d /\ h.dir = "mint" /\ Effected(h)})
LockedTotal(d) == SumLog(chain[d].srcLog)

Events == {<<d, dir, ev>> \in Deploys \X Dirs \X (1..MaxEvents) :
             ev <= Len(LogOf(chain[d], dir))}

(* ------------------------------- claims ------------------------------- *)

\* C1: for every Locked or Burned event, however often it is delivered, at
\* most one destination call (mintWrapped / release) takes effect
C1_AtMostOneAction ==
  \A e \in Events :
    Cardinality({h \in Of(e[1], e[2], e[3]) : Effected(h)}) <= 1

\* C2: the cumulative amount minted by the relayer's mintWrapped calls never
\* exceeds the cumulative amount locked
C2_MintedAtMostLocked ==
  \A d \in Deploys : MintedByRelayer(d) <= LockedTotal(d)

\* the token balances and the total supplies of a deployment
Balances(c) == <<c.srcBal, c.wBal, SrcSupply(c), WSupply(c)>>

\* C3: release and mintWrapped take effect only for the caller that is the
\* relayer configured on that bridge at the time; from any other caller the
\* call reverts and no balance and no total supply changes
C3_OnlyConfiguredRelayer ==
  \A s \in Signers, u \in Signers, a \in Amounts :
    /\ ReleaseOk(Cur, s, u, a) => s = Cur.srcRelayer
    /\ MintWrappedOk(Cur, s, u, a) => s = Cur.dstRelayer
    /\ s # Cur.srcRelayer => Balances(Release(Cur, s, u, a)) = Balances(Cur)
    /\ s # Cur.dstRelayer => Balances(MintWrapped(Cur, s, u, a)) = Balances(Cur)
    /\ Release(Cur, s, u, a) # Cur => s = Cur.srcRelayer
    /\ MintWrapped(Cur, s, u, a) # Cur => s = Cur.dstRelayer

\* C3 witness: both bridges hold what a call could move, wrapped tokens were
\* minted, the destination bridge's relayer has been changed to the user and
\* a mintWrapped call of the former relayer has reverted
C3_Witness ==
  /\ Cur.wOwner = DstBridge
  /\ Cur.dstRelayer = User
  /\ Cur.srcBal[SrcBridge] > 0
  /\ WSupply(Cur) > 0
  /\ reverted = [fn |-> "mintWrapped", sender |-> Relayer]

\* C4: a step changes the relayer of a bridge only as setRelayer called by
\* the owner does, and setRelayer from any other caller changes nothing
C4_OnlyOwnerSetsRelayer ==
  [][\A d \in Deploys :
       /\ chain'[d].srcRelayer # chain[d].srcRelayer =>
            \E r \in Signers : chain'[d] = SrcSetRelayer(chain[d], Owner, r)
       /\ chain'[d].dstRelayer # chain[d].dstRelayer =>
            \E r \in Signers : chain'[d] = DstSetRelayer(chain[d], Owner, r)
       /\ \A s \in Signers \ {Owner}, r \in Signers :
            /\ SrcSetRelayer(chain[d], s, r) = chain[d]
            /\ DstSetRelayer(chain[d], s, r) = chain[d]]_vars

\* C4 witness: the owner has changed the relayer of the source bridge, and
\* setRelayer called by the user on the destination bridge has reverted
C4_Witness ==
  /\ Cur.srcRelayer = User /\ Cur.dstRelayer = Relayer
  /\ reverted = [fn |-> "destination.setRelayer", sender |-> User]

Last(log) == log[Len(log)]

\* the record of callback h after the step
After(h) ==
  CHOOSE g \in procs' :
    g.dep = h.dep /\ g.dir = h.dir /\ g.ev = h.ev /\ g.n = h.n

\* C5: a lock by a user with balance and allowance moves amount from the
\* user to the source bridge and nothing else; the relayer's callback for
\* the resulting event is not refused and its mint is not reverted, and the
\* mint adds amount to the wrapped balance of the event's destination
C5_LockThenMint ==
  [][\A d \in Deploys :
       /\ Len(chain'[d].srcLog) = Len(chain[d].srcLog) + 1 =>
            LET e == Last(chain'[d].srcLog) IN
              /\ chain'[d].srcBal =
                   [chain[d].srcBal EXCEPT ![e.user] = @ - e.amount,
                                           ![SrcBridge] = @ + e.amount]
              /\ chain'[d].wBal = chain[d].wBal
       /\ \A h \in procs :
            (h.dep = d /\ h.dir = "mint" /\ h \notin procs') =>
              LET e == chain[d].srcLog[h.ev] IN
                /\ After(h).pc \notin {"error", "reverted"}
                /\ After(h).pc = "mined" =>
                     /\ chain'[d].wBal =
                          [chain[d].wBal EXCEPT ![e.destination] = @ + e.amount]
                     /\ chain'[d].srcBal = chain[d].srcBal]_vars

\* C5 witness: the user locked 1 for the owner's address, the event was handed
\* to the relayer once and its mint is reported successful
C5_Witness ==
  /\ redeliv = 0
  /\ Cur.srcLog = <<[user |-> User, amount |-> 1, destination |-> Owner]>>
  /\ \E h \in Of(dep, "mint", 1) : h.pc = "successful"
  /\ Cur.srcBal[SrcBridge] = 1
  /\ Cur.wBal[Owner] = 1
  /\ Cur.wBal[User] = 0

\* lock, the relayer's mint, burn, the relayer's release, one after the other
RoundTrip(c0, u, a) ==
  LET c1 == Lock(c0, u, a, u)
      m  == CallArgs(Last(c1.srcLog))
      c2 == MintWrapped(c1, Relayer, m.to, m.amount)
      c3 == Burn(c2, u, a, u)
      r  == CallArgs(Last(c3.dstLog))
      c4 == Release(c3, Relayer, r.to, r.amount)
  IN  (/\ LockOk(c0, u, a, u)
       /\ MintWrappedOk(c1, Relayer, m.to, m.amount)
       /\ BurnOk(c2, u, a, u)
       /\ ReleaseOk(c3, Relayer, r.to, r.amount)) =>
        /\ c4.srcBal = c0.srcBal
        /\ c4.wBal = c0.wBal
        /\ c3.wBal[u] = c2.wBal[u] - a
        /\ c4.srcBal[SrcBridge] = c3.srcBal[SrcBridge] - a
        /\ c4.srcBal[u] = c3.srcBal[u] + a

\* C6: from any state, lock(amount, U) by U, the relayer's mint, burn(amount,
\* U) by U and the relayer's release, in this order, return U's source
\* balance, the bridge's source balance and U's wrapped balance to what they
\* were; the burn takes amount from U's wrapped balance and the release moves
\* amount from the bridge to U
C6_RoundTrip ==
  \A d \in Deploys, u \in Signers, a \in 1..MaxAmount : RoundTrip(chain[d], u, a)

\* C6 witness: the four steps have been run by the user and the relayer, and
\* every balance is back where it was before the lock
C6_Witness ==
  /\ redeliv = 0
  /\ Len(Cur.srcLog) = 1 /\ Len(Cur.dstLog) = 1
  /\ \E h \in Of(dep, "mint", 1) : h.pc = "successful"
  /\ \E h \in Of(dep, "release", 1) : h.pc = "successful"
  /\ Cur.srcBal[User] = 1 /\ Cur.srcBal[SrcBridge] = 0 /\ Cur.wBal[User] = 0

\* the callback still has a step to take
Runnable(h) == ENABLED (Submit(h) \/ Mine(h) \/ Wait(h))

\* C7: a callback whose mint was rejected because the relayer is not the one
\* configured on the destination bridge ends in DeadLettered, with nothing
\* minted for it and the locked tokens still in the source bridge
C7_RejectedMintDeadLettered ==
  \A h \in procs :
    (/\ h.dir = "mint" /\ h.alive /\ ~Runnable(h) /\ ~Effected(h)
     /\ chain[h.dep].dstRelayer # Relayer) =>
      /\ Status(h) = "DeadLettered"
      /\ Attempts(h) > 1

\* C8: no transfer is dropped: a callback that has no step left has ended in
\* Confirmed, or in DeadLettered after having submitted again
C8_NeverDropped ==
  \A h \in procs :
    (h.alive /\ ~Runnable(h)) =>
      \/ Status(h) = "Confirmed"
      \/ Status(h) = "DeadLettered" /\ Attempts(h) > 1

\* C9: every event emitted on a bridge, also one emitted while the relayer
\* is down or before its listeners are registered, is eventually handed to
\* a callback of the relayer
C9_EveryEventHanded ==
  \A d \in Deploys, dir \in Dirs, ev \in 1..MaxEvents :
    (ev <= Len(LogOf(chain[d], dir))) ~> (Of(d, dir, ev) # {})

\* C10: a callback killed after it sent its call stays the only submission
\* for its event when the relayer is started again, and when that call took
\* effect it is the one destination action for the event
C10_NoSecondSubmission ==
  \A h \in procs :
    (~h.alive /\ Attempts(h) > 0) =>
      /\ {g \in Of(h.dep, h.dir, h.ev) : Attempts(g) > 0} = {h}
      /\ Effected(h) =>
           Cardinality({g \in Of(h.dep, h.dir, h.ev) : Effected(g)}) = 1

\* C10 witness: the relayer was killed with a mint sent, has been started
\* again and listens, and the mint has taken effect once
C10_Witness ==
  /\ dep = 2 /\ rpc = "listening"
  /\ \E h \in Of(1, "mint", 1) :
       /\ ~h.alive /\ h.pc = "mined"
       /\ chain[1].wBal[h.to] = h.amount

\* entry ev of the log of dir is in the newest block: no block has been
\* appended after the one that holds it
AtTip(c, dir, ev) == c.tip = EventTx(dir, ev)

\* C11: the relayer never acts on an event that is fewer than
\* confirmationDepth blocks deep: when a callback has made its destination
\* call, at least one further block (the least confirmationDepth) has been
\* appended after the block of its event
C11_ActsAtConfirmationDepth ==
  \A h \in procs : Attempts(h) > 0 => ~AtTip(chain[h.dep], h.dir, h.ev)

\* the contracts of callback h's deployment after its call, signed by the
\* relayer account and made with (e[recipient], e.amount) for its event e,
\* was mined
CallMined(h, recipient) ==
  LET c == chain[h.dep]
      e == LogOf(c, h.dir)[h.ev]
  IN  [(IF h.dir = "mint"
        THEN MintWrapped(c, Relayer, e[recipient], e.amount)
        ELSE Release(c, Relayer, e[recipient], e.amount))
       EXCEPT !.tip = CallTx(h)]

\* that call would be accepted by the bridge as it stands
CallAccepted(h, recipient) ==
  LET c == chain[h.dep]
      e == LogOf(c, h.dir)[h.ev]
  IN  IF h.dir = "mint"
      THEN MintWrappedOk(c, Relayer, e[recipient], e.amount)
      ELSE ReleaseOk(c, Relayer, e[recipient], e.amount)

\* every step of a callback up to the mining of its call is the step of
\* the call f(e[recipient], e.amount) signed by the relayer account
CallsWith(recipient) ==
  \A h \in procs :
    /\ (h.pc = "observed" /\ h \notin procs') =>
         After(h).pc = IF CallAccepted(h, recipient) THEN "pending" ELSE "error"
    /\ (h.pc = "pending" /\ h \notin procs') =>
         chain'[h.dep] = CallMined(h, recipient)

\* C12 as stated: for every TokenLocked event the relayer's call is
\* mintWrapped(user, amount), for every TokenBurned event release(user,
\* amount), with the user and amount fields of the event, signed by the
\* relayer account
C12_CallsWithEventUser == [][CallsWith("user")]_vars

\* C12 as amended: the call is mintWrapped(destination, amount) /
\* release(destination, amount), with the destination and amount fields of
\* the event, signed by the relayer account
C12_CallsWithEventDestination == [][CallsWith("destination")]_vars

\* C12 witness: the user locked 1 for the owner's address, the owner has
\* since made the user the relayer of the source bridge, and the callback's
\* mint to the owner's address is in the newest block
C12_Witness ==
  /\ Cur.srcLog = <<[user |-> User, amount |-> 1, destination |-> Owner]>>
  /\ Cur.srcRelayer = User
  /\ \E h \in Of(dep, "mint", 1) : h.pc = "mined" /\ Cur.tip = CallTx(h)
  /\ Cur.wBal[Owner] = 1 /\ Cur.wBal[User] = 0

\* cumulative amount burned, and released by the relayer's release calls
BurnedTotal(d) == SumLog(chain[d].dstLog)
ReleasedByRelayer(d) ==
  SumAmount({h \in procs : h.dep = d /\ h.dir = "release" /\ Effected(h)})

\* C13: every destination action of the relayer is made for one entry of
\* the log of its direction and with that entry's amount, and what these
\* actions created and moved is exactly the sum of those amounts: the
\* wrapped supply is the amounts of the effected mints less the amounts
\* burned, the source bridge holds the amounts locked less the amounts of
\* the effected releases
C13_AmountConserved ==
  /\ \A h \in procs :
       /\ h.ev \in 1..Len(LogOf(chain[h.dep], h.dir))
       /\ h.amount = LogOf(chain[h.dep], h.dir)[h.ev].amount
  /\ \A d \in Deploys :
       /\ WSupply(chain[d]) = MintedByRelayer(d) - BurnedTotal(d)
       /\ chain[d].srcBal[SrcBridge] = LockedTotal(d) - ReleasedByRelayer(d)

\* C13 witness: two locks of 1 were minted by the relayer, one of the
\* wrapped tokens was burned and released
C13_Witness ==
  /\ Len(Cur.srcLog) = 2 /\ Len(Cur.dstLog) = 1
  /\ \A ev \in 1..2 : \E h \in Of(dep, "mint", ev) : Effected(h)
  /\ \E h \in Of(dep, "release", 1) : Effected(h)
  /\ WSupply(Cur) = 1 /\ Cur.srcBal[SrcBridge] = 1

\* C14: lock, burn, mintWrapped and release called with amount 0 revert,
\* whoever calls and whatever the balances: nothing in storage changes and
\* no event is emitted; every TokenLocked and TokenBurned entry of the logs
\* has an amount above 0
C14_AmountsPositive ==
  \A d \in Deploys :
    LET c == chain[d] IN
      /\ \A i \in 1..Len(c.srcLog) : c.srcLog[i].amount > 0
      /\ \A i \in 1..Len(c.dstLog) : c.dstLog[i].amount > 0
      /\ \A s \in Signers, u \in Signers :
           /\ ~LockOk(c, s, 0, u) /\ Lock(c, s, 0, u) = c
           /\ ~BurnOk(c, s, 0, u) /\ Burn(c, s, 0, u) = c
           /\ ~MintWrappedOk(c, s, u, 0) /\ MintWrapped(c, s, u, 0) = c
           /\ ~ReleaseOk(c, s, u, 0) /\ Release(c, s, u, 0) = c

\* C14 witness: tokens were locked and wrapped tokens minted, and each of
\* the four calls would be accepted with amount 1, so that the amount alone
\* refuses it with amount 0
C14_Witness ==
  /\ Len(Cur.srcLog) > 0
  /\ WSupply(Cur) > 0
  /\ LockOk(Cur, User, 1, User) /\ ~LockOk(Cur, User, 0, User)
  /\ BurnOk(Cur, User, 1, User) /\ ~BurnOk(Cur, User, 0, User)
  /\ MintWrappedOk(Cur, Relayer, User, 1) /\ ~MintWrappedOk(Cur, Relayer, User, 0)
  /\ ReleaseOk(Cur, Relayer, User, 1) /\ ~ReleaseOk(Cur, Relayer, User, 0)

\* the callback has run to its end: "successful!" or the logged error
Ended(h) == h.pc \in {"successful", "error"}

\* C15: once a mintWrapped or release call of the relayer has failed, every
\* event of either direction that the listeners have not been handed yet is
\* still handed to a callback, and that callback runs to its end
C15_FailureIsLocal ==
  \A dir \in Dirs, ev \in 1..MaxEvents :
    (/\ \E h \in procs : h.dep = dep /\ h.pc = "error"
     /\ sub[dir] < ev /\ ev <= Len(LogOf(Cur, dir)))
      ~> (\E g \in Of(dep, dir, ev) : Ended(g))

\* C15 witness: the mint for the first lock failed, the mint for the
\* second lock and the release for a burn are reported successful
C15_Witness ==
  /\ \E h \in Of(dep, "mint", 1) : h.pc = "error"
  /\ \E h \in Of(dep, "mint", 2) : h.pc = "successful"
  /\ \E h \in Of(dep, "release", 1) : h.pc = "successful"
  /\ Cur.srcBal[SrcBridge] = 1 /\ WSupply(Cur) = 0

\* C16: the destination calls of one direction are submitted in the order
\* of their events: when the callback of a later entry of a log has made its
\* call, the callback of every earlier entry handed to the listener has
\* made its own
C16_SubmittedInEventOrder ==
  \A g \in procs, h \in procs :
    (/\ g.dep = h.dep /\ g.dir = h.dir /\ g.ev < h.ev
     /\ Attempts(h) > 0) => Attempts(g) > 0

\* the transaction of callback h is in the newest block: its receipt has no
\* further block on top of it
ReceiptAtTip(h) == chain[h.dep].tip = CallTx(h)

\* C17: a transfer is reported successful only when the receipt of its
\* destination transaction has reached the confirmation depth: at least one
\* further block (the least confirmationDepth) has been appended after the
\* block of the transaction
C17_SuccessfulAtConfirmationDepth ==
  \A h \in procs : h.pc = "successful" => ~ReceiptAtTip(h)

\* the calls of one direction that were sent and are not yet in a block
InFlight(dir) == {h \in procs : h.dep = dep /\ h.dir = dir /\ h.pc = "pending"}

\* C18: the number of destination submissions in flight towards one chain
\* stays within a cap, whatever number of events arrive: with a cap below
\* the number of events that arrive, fewer submissions are in flight than
\* events have arrived
C18_InFlightCapped ==
  \A dir \in Dirs : Cardinality(InFlight(dir)) <= MaxEvents - 1

\* C19: with each event handed to the relayer once and the bridges called
\* only by the user (lock, burn) and the listeners (mintWrapped, release),
\* the total supply of the wrapped token never exceeds the source tokens the
\* source bridge holds
C19_FullyBacked ==
  \A d \in Deploys : WSupply(chain[d]) <= chain[d].srcBal[SrcBridge]

\* C19 witness: a lock was minted and burned again, and the release for the
\* burn is sent but not yet mined: the wrapped tokens are gone while the
\* bridge still holds the source tokens
C19_Witness ==
  /\ Len(Cur.srcLog) = 1 /\ Len(Cur.dstLog) = 1
  /\ \E h \in Of(dep, "mint", 1) : Effected(h)
  /\ \E h \in Of(dep, "release", 1) : h.pc = "pending"
  /\ WSupply(Cur) = 0 /\ Cur.srcBal[SrcBridge] = 1

\* C20: a step adds an entry to a bridge log only as one lock that moved the
\* entry's amount from its user to the source bridge, or as one burn that
\* destroyed the entry's amount of its user's wrapped tokens; a lock by a
\* caller short of balance or allowance and a burn by a caller short of
\* wrapped tokens change nothing and emit nothing
C20_EventsAttestMovement ==
  /\ [][\A d \in Deploys :
          LET c == chain[d]
              n == chain'[d]
          IN
            /\ n.srcLog # c.srcLog =>
                 /\ Len(n.srcLog) = Len(c.srcLog) + 1
                 /\ SubSeq(n.srcLog, 1, Len(c.srcLog)) = c.srcLog
                 /\ LET e == Last(n.srcLog) IN
                      /\ e.amount <= c.srcBal[e.user]
                      /\ e.amount <= c.srcAllow[e.user]
                      /\ n.srcBal[e.user] = c.srcBal[e.user] - e.amount
                      /\ n.srcBal[SrcBridge] = c.srcBal[SrcBridge] + e.amount
                      /\ SrcSupply(n) = SrcSupply(c)
            /\ n.dstLog # c.dstLog =>
                 /\ Len(n.dstLog) = Len(c.dstLog) + 1
                 /\ SubSeq(n.dstLog, 1, Len(c.dstLog)) = c.dstLog
                 /\ LET e == Last(n.dstLog) IN
                      /\ e.amount <= c.wBal[e.user]
                      /\ n.wBal[e.user] = c.wBal[e.user] - e.amount
                      /\ WSupply(n) = WSupply(c) - e.amount]_vars
  /\ [](\A s \in Signers, a \in Amounts, to \in Signers :
          /\ (Cur.srcBal[s] < a \/ Cur.srcAllow[s] < a) =>
               Lock(Cur, s, a, to) = Cur
          /\ Cur.wBal[s] < a => Burn(Cur, s, a, to) = Cur)

\* C20 witness: the user locked all they had and the relayer's mint is not
\* yet mined: a burn by the user now, and a further lock, are both refused
C20_Witness ==
  /\ Len(Cur.srcLog) = 1 /\ Len(Cur.dstLog) = 0
  /\ Cur.wOwner = DstBridge
  /\ \E h \in Of(dep, "mint", 1) : h.pc = "pending"
  /\ Cur.srcBal[SrcBridge] = 1
  /\ Cur.wBal[User] = 0 /\ ~BurnOk(Cur, User, 1, User)
  /\ Cur.srcBal[User] = 0 /\ ~LockOk(Cur, User, 1, User)

\* C21: once the destination bridge owns the wrapped token, which is so
\* before a listener is registered, it stays the owner; a step raises the
\* wrapped supply only as mintWrapped called by the configured relayer does
\* and lowers it only as a burn of the caller's own tokens does; mint and
\* burnFrom called on the token by any signer, and mintWrapped called by
\* any other than the configured relayer, change nothing
C21_SoleMintAuthority ==
  /\ [][\A d \in Deploys :
          LET c == chain[d]
              n == chain'[d]
          IN  c.wOwner = DstBridge =>
                /\ n.wOwner = DstBridge
                /\ WSupply(n) > WSupply(c) =>
                     \E u \in Signers, a \in 1..MaxAmount :
                       n = MintWrapped(c, c.dstRelayer, u, a)
                /\ WSupply(n) < WSupply(c) =>
                     \E s \in Signers, a \in 1..MaxAmount, to \in Signers :
                       /\ n = Burn(c, s, a, to)
                       /\ n.wBal = [c.wBal EXCEPT ![s] = @ - a]]_vars
  /\ [](rpc = "listening" => Cur.wOwner = DstBridge)
  /\ [](Cur.wOwner = DstBridge =>
          \A s \in Signers, u \in Signers, a \in Amounts :
            /\ WMint(Cur, s, u, a) = Cur
            /\ WBurnFrom(Cur, s, u, a) = Cur
            /\ s # Cur.dstRelayer => MintWrapped(Cur, s, u, a) = Cur)

\* C21 witness: the listeners are registered, wrapped tokens were minted
\* through the bridge and some burned by the user, and a mint called on the
\* token by the deployer has reverted
C21_Witness ==
  /\ rpc = "listening"
  /\ Cur.wOwner = DstBridge
  /\ Len(Cur.dstLog) = 1
  /\ WSupply(Cur) = 1
  /\ reverted = [fn |-> "wrappedToken.mint", sender |-> Owner]

\* the relayer the bridge of direction dir checks the callback's call against
RelayerOf(c, dir) == IF dir = "mint" THEN c.dstRelayer ELSE c.srcRelayer

\* C22: a step that changes the relayer of one bridge leaves the relayer of
\* the other bridge and every token balance as they were; the call of a
\* callback is refused, or reverts with no balance changed, exactly when the
\* relayer configured on the bridge it calls is not the script's signer,
\* whatever relayer the other bridge has
C22_IndependentRelayers ==
  [][/\ \A d \in Deploys :
          LET c == chain[d]
              n == chain'[d]
          IN  /\ n.srcRelayer # c.srcRelayer =>
                   n.dstRelayer = c.dstRelayer /\ Balances(n) = Balances(c)
              /\ n.dstRelayer # c.dstRelayer =>
                   n.srcRelayer = c.srcRelayer /\ Balances(n) = Balances(c)
     /\ \A h \in procs :
          LET c == chain[h.dep]
              n == chain'[h.dep]
              own == RelayerOf(c, h.dir) = Relayer
          IN  /\ (h.pc = "observed" /\ h \notin procs') =>
                   After(h).pc = IF own THEN "pending" ELSE "error"
              /\ (h.pc = "pending" /\ h \notin procs') =>
                   /\ After(h).pc = IF own THEN "mined" ELSE "reverted"
                   /\ (Balances(n) = Balances(c)) <=> ~own]_vars

\* C22 witness: the owner made the user the relayer of the destination
\* bridge only; since then the mint for the second lock was refused and the
\* release for a burn is mined, in the newest block
C22_Witness ==
  /\ Cur.dstRelayer = User /\ Cur.srcRelayer = Relayer
  /\ \E h \in Of(dep, "mint", 2) : h.pc = "error"
  /\ \E h \in Of(dep, "release", 1) : h.pc = "mined" /\ Cur.tip = CallTx(h)
  /\ Cur.srcBal[SrcBridge] = 1

====
